---- MODULE Spec2Model ----
(***************************************************************************)
(* Two-stage batch ETL pipeline: DataValidator (scripts/validator.py) and  *)
(* DataTransformer (scripts/transformer.py), with the rule catalog of      *)
(* config/pipeline_config.py.                                              *)
(*                                                                         *)
(* A batch (pandas DataFrame) is a record [cols, rows]: cols is the        *)
(* sequence of column names, rows the sequence of records, each a function *)
(* from the column names to cells.  Cells of the text columns are strings, *)
(* NaN being the missing value read_csv produces for an empty field.       *)
(* Cells of quantity and price are tagged: [k |-> "num", v |-> n] an       *)
(* integral number, [k |-> "frac", v |-> n] a number with integer part n   *)
(* and a non-zero fractional part (2.5), [k |-> "str"] non-numeric text,   *)
(* [k |-> "nan"] a missing value.  Prices are counted in cents.            *)
(***************************************************************************)
EXTENDS Integers, Sequences, FiniteSets, TLC

VARIABLES
    pc,             \* position of process_file: the step that runs next
    raw,            \* the batch read_from_s3 returned in this invocation
    df,             \* the working batch of process_file
    metrics,        \* DataValidator.metrics (one instance, kept across runs)
    metrics0,       \* metrics as they were when this invocation started
    initial_count,  \* the initial_count locals of the rules of this invocation
    entered,        \* the batch that entered validate_business_rules
    written,        \* the batches put to the output key in this invocation
    error,          \* the exception this invocation raised, or NoError
    runs,           \* invocations of process_file on the instance so far
    s3,             \* the object under the processed-zone key of the date
    tpc,            \* position of DataTransformer.process_file
    tin,            \* the batch the transformer read in this run
    tdf,            \* the working batch of the transformer
    tmetrics,       \* DataTransformer.metrics
    initial_columns,\* the initial_columns local of transform_data
    twritten,       \* the batches the transformer put in this run
    terror,         \* the exception this transformer run raised, or NoError
    truns           \* runs of the transformer (main) so far

vvars == <<pc, raw, df, metrics, metrics0, initial_count, entered, written, error, runs>>
tvars == <<s3, tpc, tin, tdf, tmetrics, initial_columns, twritten, terror, truns>>
vars == <<vvars, tvars>>

----------------------------------------------------------------------------
(* Bounds of the model *)

MaxLen == 3        \* records of a raw batch
MaxLenReuse == 2   \* records of a raw batch given to a reused instance
MaxRuns == 2       \* invocations of process_file on one instance
MaxLenT == 3       \* records of a validated batch given to the transformer
MaxTRuns == 2      \* runs of the transformer for one date

----------------------------------------------------------------------------
(* config/pipeline_config.py *)

REQUIRED_COLUMNS ==
    <<"transaction_id", "date", "region", "product", "quantity", "price", "customer_id">>

MIN_QUANTITY == 1
MAX_QUANTITY == 1000
MIN_PRICE == 1
MAX_PRICE == 10000000

VALID_REGIONS == {"North", "South", "East", "West", "Central"}

----------------------------------------------------------------------------
(* Cells *)

NaN == "NaN"

Num(n) == [k |-> "num", v |-> n]
Frac(n) == [k |-> "frac", v |-> n]
Text == [k |-> "str", v |-> 0]
NA == [k |-> "nan", v |-> 0]

NumericColumns == {"quantity", "price"}

Range(s) == {s[i] : i \in 1..Len(s)}

\* pandas isna on one cell of column c
IsNull(c, cell) == IF c \in NumericColumns THEN cell.k = "nan" ELSE cell = NaN

NoBatch == [cols |-> <<>>, rows |-> <<>>]

----------------------------------------------------------------------------
(* Helpers on sequences *)

\* the rows whose index is in S, in their original order
RECURSIVE Pick(_, _, _)
Pick(rows, S, n) ==
    IF n = 0 THEN <<>>
    ELSE IF n \in S THEN Append(Pick(rows, S, n - 1), rows[n])
    ELSE Pick(rows, S, n - 1)

Rows(b, S) == [cols |-> b.cols, rows |-> Pick(b.rows, S, Len(b.rows))]

Indices(b) == 1..Len(b.rows)

----------------------------------------------------------------------------
(* DataValidator: the rules, as functions of the batch *)

InitMetrics ==
    [total_records |-> 0, valid_records |-> 0, duplicates_removed |-> 0,
     null_values_removed |-> 0, invalid_quantity |-> 0, invalid_price |-> 0,
     invalid_region |-> 0, schema_errors |-> 0,
     rejection_rate_percent |-> 0 - 1]      \* -1: the key is not in the dict yet

\* validate_schema, line 102
MissingCols(b) == Range(REQUIRED_COLUMNS) \ Range(b.cols)

SkipSchemaError(m) == m

\* validate_schema, line 104
CountSchemaError(m) == [m EXCEPT !.schema_errors = @ + 1]

\* validate_schema, line 108: df[config.REQUIRED_COLUMNS].copy()
SelectRequired(b) ==
    [cols |-> REQUIRED_COLUMNS,
     rows |-> [i \in Indices(b) |-> [c \in Range(REQUIRED_COLUMNS) |-> b.rows[i][c]]]]

DropDuplicatesKeepNone(b) ==
    Rows(b, {i \in Indices(b) :
                \A j \in Indices(b) \ {i} : b.rows[j].transaction_id # b.rows[i].transaction_id})

DropDuplicatesKeepLast(b) ==
    Rows(b, {i \in Indices(b) :
                \A j \in (i + 1)..Len(b.rows) : b.rows[j].transaction_id # b.rows[i].transaction_id})

DropDuplicateRows(b) ==
    Rows(b, {i \in Indices(b) : \A j \in 1..(i - 1) : b.rows[j] # b.rows[i]})

\* remove_duplicates, line 118: drop_duplicates(subset=['transaction_id'], keep='first')
\* (two missing ids are equal for drop_duplicates)
DropDuplicates(b) ==
    Rows(b, {i \in Indices(b) :
                \A j \in 1..(i - 1) : b.rows[j].transaction_id # b.rows[i].transaction_id})

\* remove_nulls, line 131: dropna()
DropNa(b) ==
    Rows(b, {i \in Indices(b) : \A c \in Range(b.cols) : ~IsNull(c, b.rows[i][c])})

\* pd.to_numeric(errors='coerce') on one cell
ToNumeric(cell) == IF cell.k = "str" THEN NA ELSE cell

\* validate_data_types, line 145: astype('Int64') raises TypeError (cannot safely
\* cast non-equivalent float64 to int64) when a value of the column is not integral
AsTypeInt64Raises(b) ==
    \E i \in Indices(b) : ToNumeric(b.rows[i].quantity).k = "frac"

\* validate_data_types, lines 145-152, when astype does not raise
CoerceTypes(b) ==
    LET conv == [cols |-> b.cols,
                 rows |-> [i \in Indices(b) |->
                            [b.rows[i] EXCEPT !.quantity = ToNumeric(@),
                                              !.price = ToNumeric(@)]]]
    IN  Rows(conv, {i \in Indices(conv) :
                        /\ conv.rows[i].quantity.k # "nan"
                        /\ conv.rows[i].price.k # "nan"})

Timestamp(y, m, d, hh, mm) ==
    [year |-> y, month |-> m, day |-> d, hour |-> hh, minute |-> mm]

\* The calendar of the model: the date texts pd.to_datetime parses, with the
\* timestamp each denotes: the '%Y-%m-%d %H:%M:%S' texts of the raw files and
\* the '%Y-%m-%d' texts of the validated ones.  Any other text is coerced to NaT.
Calendar ==
    { [text |-> "2024-01-01 09:30:00", ts |-> Timestamp(2024, 1, 1, 9, 30)],
      [text |-> "2024-01-06 17:45:00", ts |-> Timestamp(2024, 1, 6, 17, 45)],
      [text |-> "2024-01-01", ts |-> Timestamp(2024, 1, 1, 0, 0)],
      [text |-> "2024-01-06", ts |-> Timestamp(2024, 1, 6, 0, 0)] }

NaT == Timestamp(0, 0, 0, 0, 0)

\* pd.to_datetime(errors='coerce') on one cell
ToDatetime(s) ==
    IF \E e \in Calendar : e.text = s
    THEN (CHOOSE e \in Calendar : e.text = s).ts
    ELSE NaT

StrftimeDayFirst(ts) == IF ts.day = 1 THEN "01/01/2024" ELSE "06/01/2024"

\* dt.strftime('%Y-%m-%d') on one timestamp: the text of its day
Strftime(ts) ==
    (CHOOSE e \in Calendar : e.ts = Timestamp(ts.year, ts.month, ts.day, 0, 0)).text

\* validate_dates, lines 207-218
NormalizeDates(b) ==
    LET kept == Rows(b, {i \in Indices(b) : ToDatetime(b.rows[i].date) # NaT})
    IN  [cols |-> kept.cols,
         rows |-> [i \in Indices(kept) |->
                    [kept.rows[i] EXCEPT !.date = Strftime(ToDatetime(@))]]]

\* validate_business_rules, lines 171-174, 178-181, 185
BadQuantity(r) == r.quantity.v < MIN_QUANTITY \/ r.quantity.v > MAX_QUANTITY

BadPriceElse(r) == ~BadQuantity(r) /\ (r.price.v < MIN_PRICE \/ r.price.v > MAX_PRICE)

BadPrice(r) == r.price.v < MIN_PRICE \/ r.price.v > MAX_PRICE
BadRegion(r) == r.region \notin VALID_REGIONS

InvalidQty(b) == SelectSeq(b.rows, BadQuantity)
InvalidPrice(b) == SelectSeq(b.rows, BadPrice)
InvalidRegion(b) == SelectSeq(b.rows, BadRegion)

SizeOf(rows, cols) == Len(rows) * Len(cols)

\* validate_business_rules, lines 175, 182, 186: len(...) of the selected rows
LenOf(rows, cols) == Len(rows)

KeepValidExclusive(b) ==
    Rows(b, {i \in Indices(b) :
                /\ b.rows[i].quantity.v >= MIN_QUANTITY
                /\ b.rows[i].quantity.v < MAX_QUANTITY
                /\ b.rows[i].price.v >= MIN_PRICE
                /\ b.rows[i].price.v < MAX_PRICE
                /\ b.rows[i].region \in VALID_REGIONS})

\* validate_business_rules, lines 189-195
KeepValid(b) ==
    Rows(b, {i \in Indices(b) :
                /\ b.rows[i].quantity.v >= MIN_QUANTITY
                /\ b.rows[i].quantity.v <= MAX_QUANTITY
                /\ b.rows[i].price.v >= MIN_PRICE
                /\ b.rows[i].price.v <= MAX_PRICE
                /\ b.rows[i].region \in VALID_REGIONS})

\* process_file, lines 251-257: round((total - valid) / total * 100, 2), in
\* hundredths of a percent (total > 0)
RejectionRate(total, valid) == ((total - valid) * 20000 + total) \div (2 * total)

----------------------------------------------------------------------------
(* The raw batches of the model *)

Base ==
    [transaction_id |-> "T1", date |-> "2024-01-01 09:30:00", region |-> "North",
     product |-> "Laptop", quantity |-> Num(2), price |-> Num(50000),
     customer_id |-> "C1"]

Other ==
    [transaction_id |-> "T2", date |-> "2024-01-06 17:45:00", region |-> "West",
     product |-> "Cable", quantity |-> Num(MIN_QUANTITY), price |-> Num(MIN_PRICE),
     customer_id |-> "C2"]

RawRecords ==
    { Base,
      Other,
      [Base EXCEPT !.quantity = Num(MAX_QUANTITY), !.price = Num(MAX_PRICE)],
      [Other EXCEPT !.quantity = Num(MAX_QUANTITY + 1)],
      [Other EXCEPT !.price = Num(MAX_PRICE + 1)],
      [Base EXCEPT !.quantity = Num(MIN_QUANTITY - 1), !.price = Num(MIN_PRICE - 1),
                   !.region = "Mars"],
      [Other EXCEPT !.region = "Mars", !.quantity = Num(MAX_QUANTITY + 1)],
      [Other EXCEPT !.customer_id = NaN],
      [Base EXCEPT !.transaction_id = NaN],
      [Other EXCEPT !.quantity = Text],
      [Other EXCEPT !.quantity = Frac(2)],
      [Base EXCEPT !.price = Text],
      [Other EXCEPT !.date = "notadate"] }

\* the header rows of the raw files: the required columns, the required columns
\* and one more, and the required columns but one
Headers ==
    { REQUIRED_COLUMNS,
      REQUIRED_COLUMNS \o <<"notes">>,
      SubSeq(REQUIRED_COLUMNS, 1, Len(REQUIRED_COLUMNS) - 1) }

RowSeqs(max) == UNION {[1..n -> RawRecords] : n \in 0..max}

\* the record r as a row of a file with header h
AsRow(h, r) == [c \in Range(h) |-> IF c = "notes" THEN "x" ELSE r[c]]

RawFiles(max) ==
    {[cols |-> h, rows |-> [i \in 1..Len(rs) |-> AsRow(h, rs[i])]] :
        h \in Headers, rs \in RowSeqs(max)}

NoError == "none"
NoCounts == [duplicates |-> 0, nulls |-> 0, types |-> 0, dates |-> 0, business |-> 0]

----------------------------------------------------------------------------
(* DataValidator.process_file, step by step *)

InitTransformerMetrics ==
    [records_processed |-> 0, columns_added |-> 0,
     avg_revenue |-> [num |-> 0, den |-> 1], total_revenue |-> 0]

VInit ==
    /\ pc = "idle"
    /\ raw = NoBatch
    /\ df = NoBatch
    /\ metrics = InitMetrics
    /\ metrics0 = InitMetrics
    /\ initial_count = NoCounts
    /\ entered = NoBatch
    /\ written = <<>>
    /\ error = NoError
    /\ runs = 0

TIdle ==
    /\ tpc = "idle"
    /\ tin = NoBatch
    /\ tdf = NoBatch
    /\ tmetrics = InitTransformerMetrics
    /\ initial_columns = 0
    /\ twritten = <<>>
    /\ terror = NoError
    /\ truns = 0

\* the validator stage alone: nothing is under the processed-zone key yet
Init == VInit /\ TIdle /\ s3 = NoBatch

Raise(e) == pc' = "failed" /\ error' = e

\* process_file, lines 233-234: read_from_s3 returns the batch, or raises
ReadFromS3(files) ==
    /\ pc = "idle"
    /\ runs' = runs + 1
    /\ metrics0' = metrics
    /\ \/ \E f \in files :
             /\ raw' = f
             /\ df' = f
             /\ metrics' = [metrics EXCEPT !.total_records = Len(f.rows)]
             /\ pc' = "validate_schema"
             /\ error' = NoError
       \/ /\ Raise("ClientError")
          /\ UNCHANGED <<raw, df, metrics>>
    /\ UNCHANGED <<initial_count, entered, written>>
    /\ UNCHANGED tvars

\* validate_schema, lines 97-111
ValidateSchema ==
    /\ pc = "validate_schema"
    /\ IF MissingCols(df) # {}
       THEN /\ metrics' = CountSchemaError(metrics)
            /\ Raise("ValueError")
            /\ UNCHANGED df
       ELSE /\ df' = SelectRequired(df)
            /\ pc' = "remove_duplicates"
            /\ UNCHANGED <<metrics, error>>
    /\ UNCHANGED <<raw, metrics0, initial_count, entered, written, runs>>
    /\ UNCHANGED tvars

\* remove_duplicates, lines 113-124
RemoveDuplicates ==
    /\ pc = "remove_duplicates"
    /\ initial_count' = [initial_count EXCEPT !.duplicates = Len(df.rows)]
    /\ df' = DropDuplicates(df)
    /\ metrics' = [metrics EXCEPT !.duplicates_removed = Len(df.rows) - Len(df'.rows)]
    /\ pc' = "remove_nulls"
    /\ UNCHANGED <<raw, metrics0, entered, written, error, runs>>
    /\ UNCHANGED tvars

\* remove_nulls, lines 126-137
RemoveNulls ==
    /\ pc = "remove_nulls"
    /\ initial_count' = [initial_count EXCEPT !.nulls = Len(df.rows)]
    /\ df' = DropNa(df)
    /\ metrics' = [metrics EXCEPT !.null_values_removed = Len(df.rows) - Len(df'.rows)]
    /\ pc' = "validate_data_types"
    /\ UNCHANGED <<raw, metrics0, entered, written, error, runs>>
    /\ UNCHANGED tvars

\* validate_data_types, lines 139-162
ValidateDataTypes ==
    /\ pc = "validate_data_types"
    /\ IF AsTypeInt64Raises(df)
       THEN /\ Raise("TypeError")
            /\ UNCHANGED <<df, initial_count>>
       ELSE /\ initial_count' = [initial_count EXCEPT !.types = Len(df.rows)]
            /\ df' = CoerceTypes(df)
            /\ pc' = "validate_dates"
            /\ UNCHANGED error
    /\ UNCHANGED <<raw, metrics, metrics0, entered, written, runs>>
    /\ UNCHANGED tvars

\* validate_dates, lines 202-224
ValidateDates ==
    /\ pc = "validate_dates"
    /\ initial_count' = [initial_count EXCEPT !.dates = Len(df.rows)]
    /\ df' = NormalizeDates(df)
    /\ pc' = "validate_business_rules"
    /\ UNCHANGED <<raw, metrics, metrics0, entered, written, error, runs>>
    /\ UNCHANGED tvars

\* validate_business_rules, lines 164-200, and process_file, line 244
ValidateBusinessRules ==
    /\ pc = "validate_business_rules"
    /\ initial_count' = [initial_count EXCEPT !.business = Len(df.rows)]
    /\ entered' = df
    /\ df' = KeepValid(df)
    /\ metrics' = [metrics EXCEPT
                      !.invalid_quantity = LenOf(InvalidQty(df), df.cols),
                      !.invalid_price = LenOf(InvalidPrice(df), df.cols),
                      !.invalid_region = LenOf(InvalidRegion(df), df.cols),
                                  !.valid_records = Len(df'.rows)]
    /\ pc' = "write_to_s3"
    /\ UNCHANGED <<raw, metrics0, written, error, runs>>
    /\ UNCHANGED tvars

\* write_to_s3, lines 77-95: put_object stores the batch, or raises
WriteToS3 ==
    /\ pc = "write_to_s3"
    /\ \/ /\ written' = Append(written, df)
          /\ pc' = "calculate_metrics"
          /\ UNCHANGED error
       \/ /\ Raise("ClientError")
          /\ UNCHANGED written
    /\ UNCHANGED <<raw, df, metrics, metrics0, initial_count, entered, runs>>
    /\ UNCHANGED tvars

\* process_file, lines 249-264
CalculateMetrics ==
    /\ pc = "calculate_metrics"
    /\ IF metrics.total_records = 0
       THEN /\ Raise("ZeroDivisionError")
            /\ UNCHANGED metrics
       ELSE /\ metrics' = [metrics EXCEPT !.rejection_rate_percent =
                              RejectionRate(metrics.total_records, metrics.valid_records)]
            /\ pc' = "done"
            /\ UNCHANGED error
    /\ UNCHANGED <<raw, df, metrics0, initial_count, entered, written, runs>>
    /\ UNCHANGED tvars

\* process_file has returned or raised and the caller keeps the instance for
\* another invocation: the locals are gone, the instance and its metrics remain
Return ==
    /\ pc \in {"done", "failed"}
    /\ runs < MaxRuns
    /\ pc' = "idle"
    /\ raw' = NoBatch
    /\ df' = NoBatch
    /\ initial_count' = NoCounts
    /\ entered' = NoBatch
    /\ written' = <<>>
    /\ error' = NoError
    /\ metrics0' = metrics
    /\ UNCHANGED <<metrics, runs>>
    /\ UNCHANGED tvars

ValidatorSteps ==
    \/ ValidateSchema
    \/ RemoveDuplicates
    \/ RemoveNulls
    \/ ValidateDataTypes
    \/ ValidateDates
    \/ ValidateBusinessRules
    \/ WriteToS3
    \/ CalculateMetrics

\* main, lines 302-317: a fresh DataValidator, one process_file
Next == ReadFromS3(RawFiles(MaxLen)) \/ ValidatorSteps

Spec == Init /\ [][Next]_vars

\* one DataValidator instance, process_file invoked on it several times
NextReuse == ReadFromS3(RawFiles(MaxLenReuse)) \/ ValidatorSteps \/ Return

SpecReuse == Init /\ [][NextReuse]_vars

\* main, lines 287-317, run once more with a new DataValidator, on a raw file
\* that holds the batch the completed run has written
Revalidate ==
    /\ pc = "done"
    /\ runs < MaxRuns
    /\ runs' = runs + 1
    /\ metrics0' = InitMetrics
    /\ initial_count' = NoCounts
    /\ entered' = NoBatch
    /\ written' = <<>>
    /\ \/ /\ raw' = written[Len(written)]
          /\ df' = written[Len(written)]
          /\ metrics' = [InitMetrics EXCEPT !.total_records = Len(written[Len(written)].rows)]
          /\ pc' = "validate_schema"
          /\ error' = NoError
       \/ /\ Raise("ClientError")
          /\ raw' = NoBatch
          /\ df' = NoBatch
          /\ metrics' = InitMetrics
    /\ UNCHANGED tvars

NextRevalidate == ReadFromS3(RawFiles(MaxLenReuse)) \/ ValidatorSteps \/ Revalidate

SpecRevalidate == Init /\ [][NextRevalidate]_vars

----------------------------------------------------------------------------
(* DataTransformer: the steps, as functions of the batch *)

\* df[c] = vals: the column is replaced where it stands, or added last
SetCol(b, c, vals) ==
    [cols |-> IF c \in Range(b.cols) THEN b.cols ELSE Append(b.cols, c),
     rows |-> [i \in Indices(b) |->
                [x \in DOMAIN b.rows[i] \cup {c} |->
                    IF x = c THEN vals[i] ELSE b.rows[i][x]]]]

\* calculate_revenue, lines 122-123: quantity * price, in cents
Revenue(r) == Num(r.quantity.v * r.price.v)

RECURSIVE SumOf(_, _)
SumOf(vals, n) == IF n = 0 THEN 0 ELSE vals[n] + SumOf(vals, n - 1)

\* calculate_revenue, lines 125-126: the sum and the mean of the revenue column;
\* the mean is kept as the pair [num, den], and is NaN for an empty column
TotalRevenue(b) == SumOf([i \in Indices(b) |-> b.rows[i].revenue.v], Len(b.rows))
AvgRevenue(b) == [num |-> TotalRevenue(b), den |-> Len(b.rows)]

\* the dt accessors of extract_date_components, lines 141-150, on a date of
\* the calendar (January 2024, which began on a Monday)
MonthNames == <<"January">>
DayNames == <<"Monday", "Tuesday", "Wednesday", "Thursday", "Friday", "Saturday", "Sunday">>
DayOfWeek(ts) == (ts.day - 1) % 7
Quarter(ts) == ((ts.month - 1) \div 3) + 1
WeekOfYear(ts) == ((ts.day - 1) \div 7) + 1

\* extract_date_components, lines 138-153
DateComponents(b) ==
    LET ts(i) == ToDatetime(b.rows[i].date)
        c1 == SetCol(b, "year", [i \in Indices(b) |-> ts(i).year])
        c2 == SetCol(c1, "month", [i \in Indices(b) |-> ts(i).month])
        c3 == SetCol(c2, "month_name", [i \in Indices(b) |-> MonthNames[ts(i).month]])
        c4 == SetCol(c3, "quarter", [i \in Indices(b) |-> Quarter(ts(i))])
        c5 == SetCol(c4, "day_of_week", [i \in Indices(b) |-> DayOfWeek(ts(i))])
        c6 == SetCol(c5, "day_name", [i \in Indices(b) |-> DayNames[DayOfWeek(ts(i)) + 1]])
        c7 == SetCol(c6, "week_of_year", [i \in Indices(b) |-> WeekOfYear(ts(i))])
        c8 == SetCol(c7, "is_business_day", [i \in Indices(b) |-> DayOfWeek(ts(i)) < 5])
    IN  SetCol(c8, "date", [i \in Indices(b) |-> Strftime(ts(i))])

\* REVENUE_TIERS, lines 64-69, in cents; the last tier has no upper end
REVENUE_TIERS ==
    << [name |-> "Low", min |-> 0, max |-> 10000],
       [name |-> "Medium", min |-> 10000, max |-> 50000],
       [name |-> "High", min |-> 50000, max |-> 200000],
       [name |-> "Premium", min |-> 200000, max |-> 0 - 1] >>

\* get_revenue_category, lines 163-167
RevenueCategory(revenue) ==
    LET hits == {t \in 1..Len(REVENUE_TIERS) :
                    /\ REVENUE_TIERS[t].min <= revenue
                    /\ (REVENUE_TIERS[t].max < 0 \/ revenue < REVENUE_TIERS[t].max)}
    IN  IF hits = {} THEN "Premium"
        ELSE REVENUE_TIERS[CHOOSE t \in hits : \A u \in hits : t <= u].name

\* PRODUCT_CATEGORIES, lines 50-61
PRODUCT_CATEGORIES ==
    [Laptop |-> "Computing", Desktop |-> "Computing", Monitor |-> "Peripherals",
     Keyboard |-> "Peripherals", Mouse |-> "Peripherals", Headset |-> "Audio",
     Webcam |-> "Video", Router |-> "Networking", Switch |-> "Networking",
     Cable |-> "Accessories"]

\* add_product_categories, lines 184-190: map, then fillna('Other')
ProductCategory(product) ==
    IF product \in DOMAIN PRODUCT_CATEGORIES THEN PRODUCT_CATEGORIES[product] ELSE "Other"

CustomerRevenueFirst(b, cust) ==
    LET own == {i \in Indices(b) : b.rows[i].customer_id = cust}
    IN  IF own = {} THEN 0
        ELSE b.rows[CHOOSE i \in own : \A j \in own : i <= j].revenue.v

\* add_customer_segments, lines 206-209: groupby('customer_id') sums the revenue
\* of the records of one customer (a missing customer_id is in no group)
CustomerRevenue(b, cust) ==
    SumOf([i \in Indices(b) |->
              IF b.rows[i].customer_id = cust THEN b.rows[i].revenue.v ELSE 0],
          Len(b.rows))

\* get_customer_segment, lines 212-220, in cents
CustomerSegment(total_revenue) ==
    IF total_revenue < 50000 THEN "Bronze"
    ELSE IF total_revenue < 200000 THEN "Silver"
    ELSE IF total_revenue < 500000 THEN "Gold"
    ELSE "Platinum"

KeepLeftName(c) == c

\* the column names a merge gives a column that both frames have
MergeLeftName(c) == c \o "_x"
MergeRightName(c) == c \o "_y"

\* add_customer_segments, lines 227-232: df.merge(customer_stats[['customer_segment']],
\* left_on='customer_id', right_index=True, how='left').  A column both frames
\* have is kept twice, under the suffixed names.
MergeSegments(b) ==
    LET seg == [i \in Indices(b) |->
                  IF b.rows[i].customer_id = NaN THEN NaN
                  ELSE CustomerSegment(CustomerRevenue(b, b.rows[i].customer_id))]
        c == "customer_segment"
    IN  IF c \in Range(b.cols)
        THEN LET left == MergeLeftName(c)
                 renamed ==
                    [cols |-> [k \in 1..Len(b.cols) |->
                                IF b.cols[k] = c THEN left ELSE b.cols[k]],
                     rows |-> [i \in Indices(b) |->
                                [x \in (DOMAIN b.rows[i] \ {c}) \cup {left} |->
                                    IF x = left THEN b.rows[i][c] ELSE b.rows[i][x]]]]
             IN  SetCol(renamed, MergeRightName(c), seg)
        ELSE SetCol(b, c, seg)

\* the members of the group of row i under groupby(key)
Group(b, key, i) == {j \in Indices(b) : b.rows[j][key] = b.rows[i][key]}

RankPctMin(b, key, col, i) ==
    LET g == Group(b, key, i)
        less == Cardinality({j \in g : b.rows[j][col].v < b.rows[i][col].v})
    IN  [num |-> 2 * (less + 1), den |-> 2 * Cardinality(g)]

\* groupby(key)[col].rank(pct=True): the average of the ranks the equal values
\* occupy, over the size of the group, kept as the pair [num, den]
RankPct(b, key, col, i) ==
    LET g == Group(b, key, i)
        less == Cardinality({j \in g : b.rows[j][col].v < b.rows[i][col].v})
        same == Cardinality({j \in g : b.rows[j][col].v = b.rows[i][col].v})
    IN  [num |-> 2 * less + same + 1, den |-> 2 * Cardinality(g)]

\* the k-th smallest (k from 1) of the values vals[j], j in S
Kth(vals, S, k) ==
    CHOOSE v \in {vals[j] : j \in S} :
        /\ Cardinality({j \in S : vals[j] < v}) < k
        /\ Cardinality({j \in S : vals[j] <= v}) >= k

\* add_price_indicators, lines 251-252: revenue >= quantile(0.9), the quantile
\* interpolated linearly between the two nearest order statistics
IsHighValue(b, i) ==
    LET n == Len(b.rows)
        vals == [j \in Indices(b) |-> b.rows[j].revenue.v]
        pos == 9 * (n - 1)
        lo == Kth(vals, Indices(b), (pos \div 10) + 1)
        hi == IF pos % 10 = 0 THEN lo ELSE Kth(vals, Indices(b), (pos \div 10) + 2)
    IN  10 * vals[i] >= 10 * lo + (pos % 10) * (hi - lo)

\* add_quantity_indicators, lines 265-266: quantity > the median of its product
IsBulkPurchase(b, i) ==
    LET g == Group(b, "product", i)
        n == Cardinality(g)
        vals == [j \in Indices(b) |-> b.rows[j].quantity.v]
    IN  2 * vals[i] > Kth(vals, g, (n + 1) \div 2) + Kth(vals, g, (n + 2) \div 2)

\* round(2) of num/den cents: to the nearest cent, a half to the even cent
RoundCents(num, den) ==
    LET q == num \div den
        r == num % den
    IN  IF 2 * r < den THEN q
        ELSE IF 2 * r > den THEN q + 1
        ELSE IF q % 2 = 0 THEN q ELSE q + 1

\* add_regional_indicators, lines 282-283
RegionalAvgRevenue(b, i) ==
    LET g == Group(b, "region", i)
        vals == [j \in Indices(b) |-> IF j \in g THEN b.rows[j].revenue.v ELSE 0]
    IN  Num(RoundCents(SumOf(vals, Len(b.rows)), Cardinality(g)))

----------------------------------------------------------------------------
(* The validated batches of the model: what a validator run leaves under the
   processed-zone key.  The transaction ids differ, every field is present
   and within the bounds, the dates are normalized. *)

Profiles ==
    { [date |-> "2024-01-01", region |-> "North", product |-> "Laptop",
       quantity |-> Num(2), price |-> Num(50000), customer_id |-> "C1"],
      [date |-> "2024-01-01", region |-> "North", product |-> "Laptop",
       quantity |-> Num(5), price |-> Num(50000), customer_id |-> "C1"],
      [date |-> "2024-01-06", region |-> "North", product |-> "Gadget",
       quantity |-> Num(1), price |-> Num(50000), customer_id |-> "C2"],
      [date |-> "2024-01-06", region |-> "West", product |-> "Cable",
       quantity |-> Num(1), price |-> Num(1), customer_id |-> "C2"],
      [date |-> "2024-01-01", region |-> "West", product |-> "Cable",
       quantity |-> Num(2), price |-> Num(1), customer_id |-> "C3"] }

TransactionIds == <<"T1", "T2", "T3", "T4", "T5">>

CleanBatches ==
    {[cols |-> REQUIRED_COLUMNS,
      rows |-> [i \in 1..Len(ps) |->
                  [c \in Range(REQUIRED_COLUMNS) |->
                      IF c = "transaction_id" THEN TransactionIds[i] ELSE ps[i][c]]]] :
        ps \in UNION {[1..n -> Profiles] : n \in 0..MaxLenT}}

----------------------------------------------------------------------------
(* DataTransformer.process_file, step by step *)

\* the transformer stage: a validated batch is under the processed-zone key
InitTransform == VInit /\ TIdle /\ s3 \in CleanBatches

TRaise(e) == tpc' = "failed" /\ terror' = e

\* process_file, line 332: read_from_s3 returns the stored batch, or raises
TReadFromS3 ==
    /\ tpc = "idle"
    /\ truns' = truns + 1
    /\ \/ /\ tin' = s3
          /\ tdf' = s3
          /\ tpc' = "calculate_revenue"
          /\ UNCHANGED terror
       \/ /\ TRaise("ClientError")
          /\ UNCHANGED <<tin, tdf>>
    /\ UNCHANGED <<s3, tmetrics, initial_columns, twritten, vvars>>

\* transform_data, line 304, and calculate_revenue, lines 118-131.  The columns
\* of a CSV file with no record are read with the object dtype, on which the
\* arithmetic of the steps succeeds or raises TypeError, depending on the
\* pandas build.
CalculateRevenue ==
    /\ tpc = "calculate_revenue"
    /\ \/ /\ initial_columns' = Len(tdf.cols)
          /\ tdf' = SetCol(tdf, "revenue", [i \in Indices(tdf) |-> Revenue(tdf.rows[i])])
          /\ tmetrics' = [tmetrics EXCEPT !.total_revenue = TotalRevenue(tdf'),
                                          !.avg_revenue = AvgRevenue(tdf')]
          /\ tpc' = "extract_date_components"
          /\ UNCHANGED terror
       \/ /\ tdf.rows = <<>>
          /\ TRaise("TypeError")
          /\ UNCHANGED <<tdf, tmetrics, initial_columns>>
    /\ UNCHANGED <<s3, tin, twritten, truns, vvars>>

\* one step of transform_data that assigns columns and cannot raise
TStep(at, result, next) ==
    /\ tpc = at
    /\ tdf' = result
    /\ tpc' = next
    /\ UNCHANGED <<s3, tin, tmetrics, initial_columns, twritten, terror, truns, vvars>>

\* extract_date_components, lines 133-157: line 138 calls pd.to_datetime with
\* the default errors='raise', so a date text it cannot parse ends the run
ExtractDateComponents ==
    /\ tpc = "extract_date_components"
    /\ IF \E i \in Indices(tdf) : ToDatetime(tdf.rows[i].date) = NaT
       THEN /\ TRaise("ValueError")
            /\ UNCHANGED tdf
       ELSE /\ tdf' = DateComponents(tdf)
            /\ tpc' = "categorize_revenue"
            /\ UNCHANGED terror
    /\ UNCHANGED <<s3, tin, tmetrics, initial_columns, twritten, truns, vvars>>

\* categorize_revenue, lines 159-178
CategorizeRevenue ==
    TStep("categorize_revenue",
          SetCol(tdf, "revenue_category",
                 [i \in Indices(tdf) |-> RevenueCategory(tdf.rows[i].revenue.v)]),
          "add_product_categories")

\* add_product_categories, lines 180-199
AddProductCategories ==
    TStep("add_product_categories",
          SetCol(tdf, "product_category",
                 [i \in Indices(tdf) |-> ProductCategory(tdf.rows[i].product)]),
          "add_customer_segments")

\* add_customer_segments, lines 201-241: after the merge, line 235 reads
\* df['customer_segment'], which raises KeyError when the merge renamed it
AddCustomerSegments ==
    /\ tpc = "add_customer_segments"
    /\ LET merged == MergeSegments(tdf)
       IN  IF "customer_segment" \in Range(merged.cols)
           THEN /\ tdf' = merged
                /\ tpc' = "add_price_indicators"
                /\ UNCHANGED terror
           ELSE /\ TRaise("KeyError")
                /\ UNCHANGED tdf
    /\ UNCHANGED <<s3, tin, tmetrics, initial_columns, twritten, truns, vvars>>

\* add_price_indicators, lines 243-258
AddPriceIndicators ==
    TStep("add_price_indicators",
          SetCol(SetCol(tdf, "price_percentile",
                        [i \in Indices(tdf) |-> RankPct(tdf, "product", "price", i)]),
                 "is_high_value", [i \in Indices(tdf) |-> IsHighValue(tdf, i)]),
          "add_quantity_indicators")

\* add_quantity_indicators, lines 260-275
AddQuantityIndicators ==
    TStep("add_quantity_indicators",
          SetCol(SetCol(tdf, "is_bulk_purchase",
                        [i \in Indices(tdf) |-> IsBulkPurchase(tdf, i)]),
                 "quantity_percentile",
                 [i \in Indices(tdf) |-> RankPct(tdf, "product", "quantity", i)]),
          "add_regional_indicators")

\* add_regional_indicators, lines 277-298, and transform_data, lines 316-318
AddRegionalIndicators ==
    /\ tpc = "add_regional_indicators"
    /\ LET avg == SetCol(tdf, "regional_avg_revenue",
                         [i \in Indices(tdf) |-> RegionalAvgRevenue(tdf, i)])
       IN  tdf' = SetCol(avg, "above_regional_avg",
                         [i \in Indices(tdf) |->
                            avg.rows[i].revenue.v > avg.rows[i].regional_avg_revenue.v])
    /\ tmetrics' = [tmetrics EXCEPT !.columns_added = Len(tdf'.cols) - initial_columns,
                                    !.records_processed = Len(tdf'.rows)]
    /\ tpc' = "write_to_s3"
    /\ UNCHANGED <<s3, tin, initial_columns, twritten, terror, truns, vvars>>

\* process_file, lines 338-346: write_to_s3 overwrites the object, or raises
TWriteToS3 ==
    /\ tpc = "write_to_s3"
    /\ \/ /\ s3' = tdf
          /\ twritten' = Append(twritten, tdf)
          /\ tpc' = "done"
          /\ UNCHANGED terror
       \/ /\ TRaise("ClientError")
          /\ UNCHANGED <<s3, twritten>>
    /\ UNCHANGED <<tin, tdf, tmetrics, initial_columns, truns, vvars>>

\* main, lines 365-395, has returned; the stage is run again for the date,
\* with a new DataTransformer
TRerun ==
    /\ tpc \in {"done", "failed"}
    /\ truns < MaxTRuns
    /\ tpc' = "idle"
    /\ tin' = NoBatch
    /\ tdf' = NoBatch
    /\ tmetrics' = InitTransformerMetrics
    /\ initial_columns' = 0
    /\ twritten' = <<>>
    /\ terror' = NoError
    /\ UNCHANGED <<s3, truns, vvars>>

NextTransform ==
    \/ TReadFromS3
    \/ CalculateRevenue
    \/ ExtractDateComponents
    \/ CategorizeRevenue
    \/ AddProductCategories
    \/ AddCustomerSegments
    \/ AddPriceIndicators
    \/ AddQuantityIndicators
    \/ AddRegionalIndicators
    \/ TWriteToS3
    \/ TRerun

SpecTransform == InitTransform /\ [][NextTransform]_vars

\* The batches another writer may have left under the processed-zone key: the
\* records of the validated batches, and records with a missing customer_id or
\* a date text that is no date.
StoredProfiles ==
    Profiles \cup
    { [date |-> "2024-01-06", region |-> "West", product |-> "Cable",
       quantity |-> Num(2), price |-> Num(50000), customer_id |-> NaN],
      [date |-> "notadate", region |-> "North", product |-> "Laptop",
       quantity |-> Num(1), price |-> Num(50000), customer_id |-> "C1"] }

StoredBatches ==
    {[cols |-> REQUIRED_COLUMNS,
      rows |-> [i \in 1..Len(ps) |->
                  [c \in Range(REQUIRED_COLUMNS) |->
                      IF c = "transaction_id" THEN TransactionIds[i] ELSE ps[i][c]]]] :
        ps \in UNION {[1..n -> StoredProfiles] : n \in 0..MaxLenT}}

\* the transformer run on whatever is under the processed-zone key
InitTransformStored == VInit /\ TIdle /\ s3 \in StoredBatches

SpecTransformStored == InitTransformStored /\ [][NextTransform]_vars

----------------------------------------------------------------------------
(* Properties of the validator *)

Counters ==
    {"duplicates_removed", "null_values_removed", "invalid_quantity",
     "invalid_price", "invalid_region"}

InBounds(r) ==
    /\ r.quantity.k = "num" /\ MIN_QUANTITY <= r.quantity.v /\ r.quantity.v <= MAX_QUANTITY
    /\ r.price.k = "num" /\ MIN_PRICE <= r.price.v /\ r.price.v <= MAX_PRICE
    /\ r.region \in VALID_REGIONS

\* C1: when process_file completes, every record of the batch it handed to
\* write_to_s3 has quantity, price and region within the catalog's bounds, no
\* missing value in a required column, and a transaction_id no other record of
\* that batch has.
C1_OutputIsClean ==
    pc = "done" =>
        \A k \in 1..Len(written) :
            LET out == written[k] IN
            \A i \in Indices(out) :
                /\ InBounds(out.rows[i])
                /\ \A c \in Range(REQUIRED_COLUMNS) :
                        c \in DOMAIN out.rows[i] /\ ~IsNull(c, out.rows[i][c])
                /\ \A j \in Indices(out) :
                        j # i => out.rows[j].transaction_id # out.rows[i].transaction_id

C1_Witness ==
    /\ pc = "done"
    /\ Len(written) = 1
    /\ Len(written[1].rows) = 2
    /\ Len(raw.rows) = 3
    /\ metrics.duplicates_removed = 1

\* C2: a run that fails has put nothing to the output key.
C2_NoOutputOnFailure == pc = "failed" => written = <<>>

\* C3: a raw batch with all required columns and no records makes the run
\* complete, with valid_records, every rejection counter and the rejection
\* rate at 0 (the blob store failing aside).
C3_EmptyBatch ==
    (/\ pc \in {"done", "failed"}
     /\ raw.cols # <<>> /\ MissingCols(raw) = {}
     /\ raw.rows = <<>>
     /\ error # "ClientError")
    => /\ pc = "done"
       /\ metrics.valid_records = 0
       /\ \A c \in Counters : metrics[c] = 0
       /\ metrics.schema_errors = 0
       /\ metrics.rejection_rate_percent = 0

\* C4: a record whose quantity is not an integer (text, or a number such as
\* 2.5) or whose price is not a number never makes the run raise: it is
\* dropped by validate_data_types and the run goes on.
C4_BadTypesAreDropped ==
    /\ error # "TypeError"
    /\ pc \in {"validate_dates", "validate_business_rules", "write_to_s3",
               "calculate_metrics", "done"}
        => \A i \in Indices(df) :
                df.rows[i].quantity.k = "num" /\ df.rows[i].price.k = "num"

\* C5: a raw batch lacking a required column fails in validate_schema before
\* any rule runs: schema_errors is counted, no rejection counter changes and
\* nothing is written.
C5_SchemaFailsFirst ==
    (raw.cols # <<>> /\ MissingCols(raw) # {}) =>
        /\ pc \in {"validate_schema", "failed"}
        /\ initial_count = NoCounts
        /\ written = <<>>
        /\ \A c \in Counters : metrics[c] = metrics0[c]
        /\ pc = "failed" =>
              /\ error = "ValueError"
              /\ metrics.schema_errors = metrics0.schema_errors + 1

C5_Witness ==
    /\ pc = "failed"
    /\ error = "ValueError"
    /\ MissingCols(raw) = {"customer_id"}
    /\ Len(raw.rows) = 2
    /\ raw.rows[1].transaction_id = raw.rows[2].transaction_id

\* the columns the transformer derives
DerivedColumns ==
    {"revenue", "year", "month", "month_name", "quarter", "day_of_week", "day_name",
     "week_of_year", "is_business_day", "revenue_category", "product_category",
     "customer_segment", "price_percentile", "is_high_value", "is_bulk_purchase",
     "quantity_percentile", "regional_avg_revenue", "above_regional_avg"}

Enriched(b) == DerivedColumns \subseteq Range(b.cols)

\* batch b has the columns of batch a and no other, and the derived columns of
\* every record are as in a
SameDerived(a, b) ==
    /\ b.cols = a.cols
    /\ Len(b.rows) = Len(a.rows)
    /\ \A i \in Indices(a) : \A c \in DerivedColumns : b.rows[i][c] = a.rows[i][c]

\* C6: a transformer run whose input is a batch the transformer already
\* enriched either is rejected with an error before it writes anything, or
\* leaves every derived column of every record as it was and adds no column.
C6_RerunRejectedOrNoOp ==
    Enriched(tin) =>
        \/ twritten = <<>> /\ tpc # "done"
        \/ /\ \A k \in 1..Len(twritten) : SameDerived(tin, twritten[k])
           /\ SameDerived(tin, s3)

C6_Witness ==
    /\ Enriched(tin)
    /\ Len(tin.rows) = 3
    /\ tpc = "failed"
    /\ terror = "KeyError"
    /\ twritten = <<>>
    /\ s3 = tin

\* the metrics process_file returns on a fresh instance for a raw batch that
\* passes the schema check and raises nowhere
FreshMetrics(f) ==
    LET d1 == DropDuplicates(SelectRequired(f))
        d2 == DropNa(d1)
        d3 == NormalizeDates(CoerceTypes(d2))
        d4 == KeepValid(d3)
    IN  [total_records |-> Len(f.rows),
         valid_records |-> Len(d4.rows),
         duplicates_removed |-> Len(f.rows) - Len(d1.rows),
         null_values_removed |-> Len(d1.rows) - Len(d2.rows),
         invalid_quantity |-> Cardinality({i \in Indices(d3) : BadQuantity(d3.rows[i])}),
         invalid_price |-> Cardinality({i \in Indices(d3) : BadPrice(d3.rows[i])}),
         invalid_region |-> Cardinality({i \in Indices(d3) : BadRegion(d3.rows[i])}),
         schema_errors |-> 0,
         rejection_rate_percent |-> RejectionRate(Len(f.rows), Len(d4.rows))]

\* C7: the metrics an invocation returns depend on its input batch alone: they
\* are the metrics a fresh instance returns for that batch, whatever
\* invocations the instance served before.
C7_MetricsOfInputOnly == pc = "done" => metrics = FreshMetrics(raw)

\* C8: after validate_business_rules each of invalid_quantity, invalid_price
\* and invalid_region is the number of entering records that violate that
\* dimension, whatever the other dimensions, and the batch loses each
\* violating record once.
C8_IndependentCounters ==
    entered.cols # <<>> =>
        LET Q == {i \in Indices(entered) :
                    ~(MIN_QUANTITY <= entered.rows[i].quantity.v
                        /\ entered.rows[i].quantity.v <= MAX_QUANTITY)}
            P == {i \in Indices(entered) :
                    ~(MIN_PRICE <= entered.rows[i].price.v
                        /\ entered.rows[i].price.v <= MAX_PRICE)}
            R == {i \in Indices(entered) : entered.rows[i].region \notin VALID_REGIONS}
        IN  /\ metrics.invalid_quantity = Cardinality(Q)
            /\ metrics.invalid_price = Cardinality(P)
            /\ metrics.invalid_region = Cardinality(R)
            /\ Len(entered.rows) - Len(df.rows) = Cardinality(Q \cup P \cup R)

C8_Witness ==
    /\ entered.cols # <<>>
    /\ Len(entered.rows) - Len(df.rows) = 2
    /\ metrics.invalid_quantity = 2
    /\ metrics.invalid_price = 1
    /\ metrics.invalid_region = 2

\* C9: a record entering validate_business_rules is retained exactly when its
\* quantity, price and region are within the bounds, both ends included: at
\* MAX_QUANTITY it stays, at MAX_QUANTITY + 1 it goes and is counted in
\* invalid_quantity.
C9_InclusiveBounds ==
    entered.cols # <<>> =>
        /\ \A i \in Indices(entered) :
              (entered.rows[i] \in Range(df.rows)) <=> InBounds(entered.rows[i])
        /\ \A i \in Indices(df) : df.rows[i] \in Range(entered.rows)
        /\ \A i \in Indices(entered) :
              entered.rows[i].quantity.v = MAX_QUANTITY + 1
                => /\ entered.rows[i] \notin Range(df.rows)
                   /\ metrics.invalid_quantity >= 1

C9_Witness ==
    /\ entered.cols # <<>>
    /\ \E i \in Indices(df) :
          df.rows[i].quantity.v = MAX_QUANTITY /\ df.rows[i].price.v = MAX_PRICE
    /\ \E i \in Indices(entered) :
          /\ entered.rows[i].quantity.v = MAX_QUANTITY + 1
          /\ entered.rows[i].region \in VALID_REGIONS
    /\ metrics.invalid_quantity = 1

\* C10: after a completed run valid_records is at most total_records and each
\* rejection counter is at most the number of records its rule started with.
C10_CountersBounded ==
    pc = "done" =>
        /\ metrics.valid_records <= metrics.total_records
        /\ metrics.duplicates_removed <= initial_count.duplicates
        /\ metrics.null_values_removed <= initial_count.nulls
        /\ metrics.invalid_quantity <= initial_count.business
        /\ metrics.invalid_price <= initial_count.business
        /\ metrics.invalid_region <= initial_count.business
        /\ initial_count.business <= initial_count.nulls
        /\ initial_count.nulls <= initial_count.duplicates
        /\ initial_count.duplicates = metrics.total_records

C10_Witness ==
    /\ pc = "done"
    /\ metrics.total_records = 3
    /\ metrics.duplicates_removed = 1
    /\ metrics.invalid_quantity = initial_count.business
    /\ initial_count.business = 1

----------------------------------------------------------------------------
(* Properties of the transformer *)

\* the revenue, in cents, of the records of the batch b that have the
\* customer_id of record i
RevenueOfCustomerOf(b, i) ==
    LET mine == SelectSeq(b.rows, LAMBDA r : r.customer_id = b.rows[i].customer_id)
    IN  SumOf([k \in 1..Len(mine) |-> mine[k].quantity.v * mine[k].price.v], Len(mine))

\* C11: once add_customer_segments has run, the customer_segment of every
\* record is the segment of the revenue summed over all records of the batch
\* with its customer_id (Bronze below 500, Silver from 500 to below 2000, Gold
\* from 2000 to below 5000, Platinum from 5000), so that records of one
\* customer carry one segment.
C11_SegmentOfCustomerTotal ==
    (tdf # NoBatch /\ "customer_segment" \in Range(tdf.cols)) =>
        /\ \A i \in Indices(tdf) :
              LET total == RevenueOfCustomerOf(tdf, i)
                  seg == tdf.rows[i].customer_segment
              IN  /\ seg = "Bronze" <=> total < 50000
                  /\ seg = "Silver" <=> (50000 <= total /\ total < 200000)
                  /\ seg = "Gold" <=> (200000 <= total /\ total < 500000)
                  /\ seg = "Platinum" <=> 500000 <= total
        /\ \A i, j \in Indices(tdf) :
              tdf.rows[i].customer_id = tdf.rows[j].customer_id
                => tdf.rows[i].customer_segment = tdf.rows[j].customer_segment

\* two records of one customer, each Silver on its own, Gold together
C11_Witness ==
    /\ tpc = "add_price_indicators"
    /\ \E i, j \in Indices(tdf) :
          /\ i # j
          /\ tdf.rows[i].customer_id = tdf.rows[j].customer_id
          /\ tdf.rows[i].revenue.v = 100000
          /\ tdf.rows[j].revenue.v = 100000
          /\ tdf.rows[i].customer_segment = "Gold"

\* the percentile column pcol ranks the column col within each product: the
\* equal values of a group of n records occupy the ranks less + 1 .. less + same
\* of its ascending order, and each carries their average over n
PercentileRanks(b, col, pcol) ==
    \A i \in Indices(b) :
        LET g == {j \in Indices(b) : b.rows[j].product = b.rows[i].product}
            n == Cardinality(g)
            less == Cardinality({j \in g : b.rows[j][col].v < b.rows[i][col].v})
            same == Cardinality({j \in g : b.rows[j][col].v = b.rows[i][col].v})
            ranks == SumOf([k \in 1..same |-> less + k], same)
            p == b.rows[i][pcol]
        IN  /\ 0 < p.num /\ p.num <= p.den
            /\ p.num * same * n = p.den * ranks
            /\ \A j \in g :
                  LET q == b.rows[j][pcol] IN
                  /\ b.rows[i][col].v <= b.rows[j][col].v => p.num * q.den <= q.num * p.den
                  /\ b.rows[i][col].v = b.rows[j][col].v => p.num * q.den = q.num * p.den

\* C12: within each product group price_percentile and quantity_percentile lie
\* in (0, 1], do not decrease as the ranked value grows, and give equal values
\* the same percentile, the average of the ranks they occupy over the size of
\* the group.
C12_PercentileRank ==
    /\ (tdf # NoBatch /\ "price_percentile" \in Range(tdf.cols))
          => PercentileRanks(tdf, "price", "price_percentile")
    /\ (tdf # NoBatch /\ "quantity_percentile" \in Range(tdf.cols))
          => PercentileRanks(tdf, "quantity", "quantity_percentile")

\* three records of one product with the quantities 2, 2 and 5: the tied ones
\* are at (1 + 2) / 2 / 3 = 1/2, the largest at 1
C12_Witness ==
    /\ tpc = "add_regional_indicators"
    /\ Len(tdf.rows) = 3
    /\ \E i, j, k \in Indices(tdf) :
          /\ i # j
          /\ tdf.rows[i].product = tdf.rows[k].product
          /\ tdf.rows[j].product = tdf.rows[k].product
          /\ tdf.rows[i].quantity.v = 2 /\ tdf.rows[j].quantity.v = 2
          /\ tdf.rows[k].quantity.v = 5
          /\ tdf.rows[i].quantity_percentile = [num |-> 3, den |-> 6]
          /\ tdf.rows[k].quantity_percentile = [num |-> 6, den |-> 6]
          /\ tdf.rows[i].price_percentile = [num |-> 4, den |-> 6]

\* the record lacks what a step derives from: its customer_id is missing, or
\* its date text is no date
Underivable(r) == r.customer_id = NaN \/ ToDatetime(r.date) = NaT

\* C13: the transformer emits no record with a null customer_segment, and a
\* run over a batch with a record it cannot derive a field for (a missing
\* customer_id, a date that does not parse) fails and writes nothing.
C13_NoNullDerivedField ==
    /\ \A k \in 1..Len(twritten) : \A i \in Indices(twritten[k]) :
          twritten[k].rows[i].customer_segment # NaN
    /\ (\E i \in Indices(tin) : Underivable(tin.rows[i]))
          => (tpc # "done" /\ twritten = <<>>)

\* C14: after add_regional_indicators above_regional_avg is true exactly for
\* the records whose revenue exceeds the mean revenue of the batch records of
\* their region, and regional_avg_revenue is that mean rounded to the cent.
C14_AboveRegionalMean ==
    (tdf # NoBatch /\ "above_regional_avg" \in Range(tdf.cols)) =>
        \A i \in Indices(tdf) :
            LET g == {j \in Indices(tdf) : tdf.rows[j].region = tdf.rows[i].region}
                n == Cardinality(g)
                total == SumOf([j \in Indices(tdf) |->
                                  IF j \in g THEN tdf.rows[j].quantity.v * tdf.rows[j].price.v
                                  ELSE 0], Len(tdf.rows))
                avg == tdf.rows[i].regional_avg_revenue.v
            IN  /\ tdf.rows[i].above_regional_avg <=> tdf.rows[i].revenue.v * n > total
                /\ 2 * (avg * n - total) <= n
                /\ 2 * (total - avg * n) <= n

----------------------------------------------------------------------------
(* Properties of the validator's rule chain *)

\* the positions of the batch b whose transaction_id no earlier record has
FirstOccurrences(b) ==
    {i \in Indices(b) :
        \A j \in Indices(b) : j < i => b.rows[j].transaction_id # b.rows[i].transaction_id}

\* C15: remove_duplicates keeps, for each transaction_id, the first record
\* carrying it in the order of the batch, drops every later one, leaves the
\* kept records in their order, and sets duplicates_removed to the number of
\* records it dropped.
C15_KeepFirstOccurrence ==
    pc = "remove_nulls" =>
        LET before == SelectRequired(raw)
            firsts == FirstOccurrences(before)
            nth(k) == CHOOSE i \in firsts : Cardinality({j \in firsts : j < i}) = k - 1
        IN  /\ Len(df.rows) = Cardinality(firsts)
            /\ \A k \in Indices(df) : df.rows[k] = before.rows[nth(k)]
            /\ metrics.duplicates_removed = Cardinality(Indices(before) \ firsts)
            /\ metrics.duplicates_removed = Len(before.rows) - Len(df.rows)

\* a transaction_id comes first, then another, then the first again on a
\* record with other field values
C15_Witness ==
    /\ pc = "remove_nulls"
    /\ Len(raw.rows) = 3
    /\ raw.rows[1].transaction_id = raw.rows[3].transaction_id
    /\ raw.rows[1].transaction_id # raw.rows[2].transaction_id
    /\ raw.rows[1].quantity # raw.rows[3].quantity
    /\ Len(df.rows) = 2
    /\ df.rows[1].quantity = raw.rows[1].quantity
    /\ df.rows[2].transaction_id = raw.rows[2].transaction_id
    /\ metrics.duplicates_removed = 1

\* the record passes every rule after remove_duplicates: no missing value, a
\* numeric quantity and price, a date that parses, and the catalog's bounds
PassesLaterRules(r) ==
    /\ \A c \in Range(REQUIRED_COLUMNS) : ~IsNull(c, r[c])
    /\ \E e \in Calendar : e.text = r.date
    /\ InBounds(r)

\* C16: when the first record carrying a transaction_id is rejected by a rule
\* after remove_duplicates, the clean batch has no record with that id, even
\* if a later record with the id passes every rule; the later record was
\* counted in duplicates_removed.
C16_RejectedFirstOccurrenceLosesId ==
    pc \in {"write_to_s3", "calculate_metrics", "done"} =>
        LET before == SelectRequired(raw)
            firsts == FirstOccurrences(before)
        IN  /\ \A i \in firsts :
                  ~PassesLaterRules(before.rows[i])
                    => \A k \in Indices(df) :
                          df.rows[k].transaction_id # before.rows[i].transaction_id
            /\ metrics.duplicates_removed = Cardinality(Indices(before) \ firsts)

\* an out-of-range record, then a record with the same transaction_id that
\* passes every rule: the run completes with an empty clean batch
C16_Witness ==
    /\ pc = "done"
    /\ Len(raw.rows) = 2
    /\ raw.rows[1].transaction_id = raw.rows[2].transaction_id
    /\ ~PassesLaterRules(SelectRequired(raw).rows[1])
    /\ PassesLaterRules(SelectRequired(raw).rows[2])
    /\ Len(written) = 1
    /\ written[1].rows = <<>>
    /\ metrics.duplicates_removed = 1
    /\ metrics.valid_records = 0

\* C17: the rule chain applied to a batch a completed run has written hands the
\* same records on, in the same order and with the same field values, with
\* duplicates_removed, null_values_removed, invalid_quantity, invalid_price
\* and invalid_region at 0, and no rule raises.
C17_RuleChainIdempotent ==
    runs >= 2 =>
        /\ pc \in {"remove_duplicates", "remove_nulls", "validate_data_types",
                   "validate_dates", "validate_business_rules", "write_to_s3",
                   "calculate_metrics", "done"}
              => /\ df = raw
                 /\ \A c \in Counters : metrics[c] = 0
                 /\ metrics.schema_errors = 0
        /\ pc \in {"calculate_metrics", "done"}
              => /\ written = <<raw>>
                 /\ metrics.valid_records = metrics.total_records
        /\ pc = "failed" => error \in {"ClientError", "ZeroDivisionError"}

\* the second run has completed on the two records the first run wrote
C17_Witness ==
    /\ runs = 2
    /\ pc = "done"
    /\ Len(raw.rows) = 2
    /\ raw.rows[1].date = "2024-01-01"
    /\ raw.rows[2].date = "2024-01-06"
    /\ written = <<raw>>
    /\ metrics.valid_records = 2
    /\ metrics.rejection_rate_percent = 0

====
